---- MODULE Spec2Model ----
(***************************************************************************)
(* Model of the elliptic structured O-grid generator of AirfoilMesher:     *)
(* createEllipticStructuredOGrid and exportToGmsh                          *)
(* (src/EllipticStructuredOgrid.py) and the entry point                    *)
(* (src/AirfoilMesher.py).                                                 *)
(*                                                                         *)
(* Numbers.  Coordinates are float64 in the source.  Here a coordinate is  *)
(* an integer number of half chord lengths (0.5 is 1, the chord is 2, the  *)
(* far-field radius 20.0 is 2*Rfarfield), or the value NaN.  One node      *)
(* update is computed exactly on the integers and rounded once, to the     *)
(* nearest representable value, when it is stored; 0/0 is NaN and NaN      *)
(* propagates through every operation and comparison as in IEEE 754.       *)
(* The tolerance 1e-6 is below the resolution of the lattice, so           *)
(* err < tolerance holds exactly when err is 0.                            *)
(***************************************************************************)
EXTENDS Integers, Sequences, FiniteSets, TLC

VARIABLES
    pc,          \* position of the program
    args,        \* the parsed command lines of the entry point (none or one)
    nPoints,     \* NACA4: samples per surface
    xCoords, yUpper, yLower,       \* arguments of createEllipticStructuredOGrid
    x_airfoil, y_airfoil,          \* the inner loop
    src,         \* history: the surface sample each loop point was taken from
    Nc,          \* number of circumferential points
    x, y,        \* the grid, x[i][j]
    x_old, y_old,                  \* snapshot taken at the start of a sweep
    it,          \* loop variable of the Gauss-Seidel loop
    cur,         \* position inside the sweep: index into SweepOrder
    err,         \* residual of the last complete sweep
    errHist,     \* history: err of every complete sweep
    writes,      \* history: writes[i][j] counts the stores into node (i,j)
    rd,          \* history: indices and values read by the last node update
    stdout,      \* messages printed
    ret,         \* value handed back to the caller
    gmsh         \* the models exportToGmsh handed to the mesh library

vars == <<pc, args, nPoints, xCoords, yUpper, yLower, x_airfoil, y_airfoil,
          src, Nc, x, y, x_old, y_old, it, cur, err, errHist, writes, rd,
          stdout, ret, gmsh>>

----------------------------------------------------------------------------
(* Bounds of the model *)

\* longest surface sequence handed to the generator
MaxN == 3
\* largest --Nc / --Nr value given on the command line
MaxArg == 5
\* radial points (40 in the source), scaled down
Nr == 4
\* iteration cap (5000 in the source), scaled down
max_iter == 3

\* abscissas 0.0, 1.0 and 20.5; ordinates 0.0 and +-0.5
XVals == {0, 2, 41}
YUpperVals == {0, 1}
YLowerVals == {-1, 0}

----------------------------------------------------------------------------
(* Program constants *)

Rfarfield == 20
tolerance == 1
NaN == -1000000
NumParams == 3
NumCallArgs == 4

None == "None"
Empty == [k \in {} |-> 0]

----------------------------------------------------------------------------
(* Python and numpy helpers *)

range(a, b) == a .. (b - 1)

Reverse(s) == [k \in 1..Len(s) |-> s[Len(s) + 1 - k]]

PyBound(k, n) == IF k < 0 THEN (IF k + n < 0 THEN 0 ELSE k + n)
                 ELSE (IF k > n THEN n ELSE k)

PySlice(s, a, b) ==
    LET lo == PyBound(a, Len(s))
        hi == PyBound(b, Len(s))
    IN  IF lo < hi THEN SubSeq(s, lo + 1, hi) ELSE <<>>

PyIdx(k, n) == IF k < 0 THEN k + n ELSE k

Round(num, den) == (2 * num + den) \div (2 * den)

Abs(a) == IF a < 0 THEN -a ELSE a

IsNaN(v) == v = NaN

Less(a, b) == ~IsNaN(a) /\ ~IsNaN(b) /\ a < b

SetMax(S) == CHOOSE m \in S : \A o \in S : o <= m

----------------------------------------------------------------------------
(* createEllipticStructuredOGrid: boundary loops and initial grid *)

AirfoilLoop_tail(upper, lower) == Reverse(upper) \o PySlice(lower, 1, Len(lower))

AirfoilLoop(upper, lower) == Reverse(upper) \o PySlice(lower, 1, -1)

\* 1000 cos(2 pi k / n) and 1000 sin(2 pi k / n), rounded, for the point
\* counts the bounds allow
Cos1000(k, n) ==
    CASE n = 1 -> 1000
      [] n = 2 -> <<1000, -1000>>[k + 1]
      [] n = 3 -> <<1000, -500, -500>>[k + 1]
      [] n = 4 -> <<1000, 0, -1000, 0>>[k + 1]
      [] n = 5 -> <<1000, 309, -809, -809, 309>>[k + 1]
      [] n = 6 -> <<1000, 500, -500, -1000, -500, 500>>[k + 1]
      [] n = 7 -> <<1000, 623, -223, -901, -901, -223, 623>>[k + 1]
      [] n = 8 -> <<1000, 707, 0, -707, -1000, -707, 0, 707>>[k + 1]

Sin1000(k, n) ==
    CASE n = 1 -> 0
      [] n = 2 -> <<0, 0>>[k + 1]
      [] n = 3 -> <<0, 866, -866>>[k + 1]
      [] n = 4 -> <<0, 1000, 0, -1000>>[k + 1]
      [] n = 5 -> <<0, 951, 588, -588, -951>>[k + 1]
      [] n = 6 -> <<0, 866, 866, 0, -866, -866>>[k + 1]
      [] n = 7 -> <<0, 782, 975, 434, -434, -975, -782>>[k + 1]
      [] n = 8 -> <<0, 707, 1000, 707, 0, -707, -1000, -707>>[k + 1]

FarfieldX(k, n) == Round(2 * Rfarfield * Cos1000(k, n) + 1000, 1000)

FarfieldY(k, n) == Round(2 * Rfarfield * Sin1000(k, n), 1000)

Interpolate(inner, outer, j) == Round((Nr - 1 - j) * inner + j * outer, Nr - 1)

\* inner and outer are the two boundary loops of one coordinate
InitialGrid(inner, outer) ==
    [i \in range(0, Len(inner)) |->
        [j \in range(0, Nr) |->
            IF j = 0 THEN inner[i + 1]
            ELSE IF j = PyIdx(-1, Nr) THEN outer[i + 1]
            ELSE Interpolate(inner[i + 1], outer[i + 1], j)]]

----------------------------------------------------------------------------
(* createEllipticStructuredOGrid: one Gauss-Seidel sweep *)

jRange_inner == range(0, Nr - 1)

\* for j in range(1, Nr-1)
jRange == range(1, Nr - 1)

SweepOrder_jmajor(n) ==
    LET F == Cardinality(jRange)
        lo == IF F = 0 THEN 0 ELSE CHOOSE m \in jRange : \A o \in jRange : m <= o
    IN  [k \in 1..(n * F) |-> <<(k - 1) % n, lo + ((k - 1) \div n)>>]

\* for i in range(Nc): for j in range(1, Nr-1): the nodes in the order of
\* their update
SweepOrder(n) ==
    LET F == Cardinality(jRange)
        lo == IF F = 0 THEN 0 ELSE CHOOSE m \in jRange : \A o \in jRange : m <= o
    IN  [k \in 1..(n * F) |-> <<(k - 1) \div F, lo + ((k - 1) % F)>>]

ip_solver(i, n) == (i + 1) % n

im_solver(i, n) == (i - 1) % n

At(g, i, j) == g[i][PyIdx(j, Nr)]

\* The value stored into node (i,j) of the coordinate array g, read from the
\* arrays gx, gy as they are now.  With A = 4 alpha, G = 4 gamma, B = 4 beta
\* and c = 4 g_xi_eta:
\*   g_new  = (2A(g[i,jp]+g[i,jm]) + 2G(g[ip,j]+g[im,j]) - B c) / (4(A+G))
\*   stored = (1-omega) g[i,j] + omega g_new,  omega = 1.8 = 9/5
Relax(gx, gy, g, i, j, n) ==
    LET ip == ip_solver(i, n)
        im == im_solver(i, n)
        jp == j + 1
        jm == j - 1
        reads == {At(gx, ip, j), At(gx, im, j), At(gx, i, jp), At(gx, i, jm),
                  At(gy, ip, j), At(gy, im, j), At(gy, i, jp), At(gy, i, jm),
                  At(g, ip, jp), At(g, ip, jm), At(g, im, jp), At(g, im, jm),
                  At(g, i, j)}
        dxi == At(gx, ip, j) - At(gx, im, j)
        dxe == At(gx, i, jp) - At(gx, i, jm)
        dyi == At(gy, ip, j) - At(gy, im, j)
        dye == At(gy, i, jp) - At(gy, i, jm)
        A == dxi * dxi + dyi * dyi
        B == dxi * dxe + dyi * dye
        G == dxe * dxe + dye * dye
        c == At(g, ip, jp) - At(g, ip, jm) - At(g, im, jp) + At(g, im, jm)
        num == 2 * A * (At(g, i, jp) + At(g, i, jm))
               + 2 * G * (At(g, ip, j) + At(g, im, j)) - B * c
        den == 4 * (A + G)
    IN  IF NaN \in reads THEN NaN
        ELSE IF den = 0 THEN NaN
        ELSE Round(9 * num - 4 * At(g, i, j) * den, 5 * den)

\* np.max(np.abs(x - x_old) + np.abs(y - y_old)) over the whole arrays
Residual(gx, gxo, gy, gyo, n) ==
    LET nodes == range(0, n) \X range(0, Nr)
        bad == \E p \in nodes : \/ IsNaN(gx[p[1]][p[2]]) \/ IsNaN(gxo[p[1]][p[2]])
                                \/ IsNaN(gy[p[1]][p[2]]) \/ IsNaN(gyo[p[1]][p[2]])
    IN  IF bad THEN NaN
        ELSE SetMax({Abs(gx[p[1]][p[2]] - gxo[p[1]][p[2]])
                     + Abs(gy[p[1]][p[2]] - gyo[p[1]][p[2]]) : p \in nodes})

\* if err < tolerance
Converged(e) == Less(e, tolerance)

LoopContinues_le(k) == k <= max_iter

\* for it in range(max_iter)
LoopContinues(k) == k < max_iter

----------------------------------------------------------------------------
(* exportToGmsh *)

NodeId(i, j, n) == j * n + i + 1

ip_quad_nowrap(i, n) == i + 1

ip_quad(i, n) == (i + 1) % n

ip_airfoil(i, n) == (i + 1) % n

ip_farfield(i, n) == (i + 1) % n

QuadNodes_flipped(i, j, n) ==
    LET ip == ip_quad(i, n)
    IN  <<NodeId(i, j, n), NodeId(i, j + 1, n), NodeId(ip, j + 1, n), NodeId(ip, j, n)>>

QuadNodes(i, j, n) ==
    LET ip == ip_quad(i, n)
    IN  <<NodeId(i, j, n), NodeId(ip, j, n), NodeId(ip, j + 1, n), NodeId(i, j + 1, n)>>

\* the model handed to gmsh: nodes in the order for j: for i, quads in the
\* order for j in range(Nr-1): for i, then the two rings of line elements;
\* element ids count on from the quads through the airfoil to the far field
ExportToGmsh(gx, gy) ==
    LET n == Cardinality(DOMAIN gx)
        r == IF n = 0 THEN 0 ELSE Cardinality(DOMAIN gx[0])
        nq == n * (r - 1)
    IN  [ node_tags |-> [k \in 1..(n * r) |-> NodeId((k - 1) % n, (k - 1) \div n, n)],
          node_coords |-> [k \in 1..(n * r) |->
                              <<gx[(k - 1) % n][(k - 1) \div n],
                                gy[(k - 1) % n][(k - 1) \div n]>>],
          quad_tags |-> [k \in 1..nq |-> k],
          quad_nodes |-> [k \in 1..nq |-> QuadNodes((k - 1) % n, (k - 1) \div n, n)],
          airfoil_elems |-> [k \in 1..n |-> nq + k],
          airfoil_nodes |-> [k \in 1..n |->
                                <<(k - 1) + 1, ip_airfoil(k - 1, n) + 1>>],
          farfield_elems |-> [k \in 1..n |-> nq + n + k],
          farfield_nodes |-> [k \in 1..n |->
                                 <<(r - 1) * n + (k - 1) + 1,
                                   (r - 1) * n + ip_farfield(k - 1, n) + 1>>] ]

----------------------------------------------------------------------------
(* NACA4 and the entry point *)

\* nPoints = int(Nc / 2) + 1
NACA4_nPoints(nc) == (nc \div 2) + 1

\* a call with k positional arguments of a function of NumParams parameters
CallAccepted(k) == k = NumParams

----------------------------------------------------------------------------
(* Inputs *)

Abscissas(n) == {s \in [1..n -> XVals] : \A k \in 1..(n - 1) : s[k] <= s[k + 1]}

Methods == {"GMSH", "ELLIPTIC"}

NoRead == [i |-> -1, j |-> -1, ip |-> -1, im |-> -1, jp |-> -1, jm |-> -1,
           xv |-> <<>>, yv |-> <<>>]

----------------------------------------------------------------------------
(* The state machine *)

Init ==
    /\ pc = "idle"
    /\ args = <<>>
    /\ nPoints = 0
    /\ xCoords = <<>> /\ yUpper = <<>> /\ yLower = <<>>
    /\ x_airfoil = <<>> /\ y_airfoil = <<>>
    /\ src = <<>>
    /\ Nc = 0
    /\ x = Empty /\ y = Empty
    /\ x_old = Empty /\ y_old = Empty
    /\ it = 0
    /\ cur = 0
    /\ err = NaN          \* not computed yet
    /\ errHist = <<>>
    /\ writes = Empty
    /\ rd = NoRead
    /\ stdout = <<>>
    /\ ret = "pending"
    /\ gmsh = <<>>

\* python AirfoilMesher.py --meshingMethod method --Nc nc --Nr nr
\* (a four digit --NACA code): the script up to the call of the mesher
Main ==
    /\ pc = "idle"
    /\ \E method \in Methods, nc \in 0..MaxArg, nr \in 2..MaxArg :
        /\ args' = <<[meshingMethod |-> method, Nc |-> nc, Nr |-> nr]>>
        /\ nPoints' = NACA4_nPoints(nc)
        /\ pc' = IF method = "GMSH" THEN "gmsh"
                 ELSE IF CallAccepted(NumCallArgs) THEN "accepted"
                 ELSE "TypeError"
        /\ UNCHANGED <<xCoords, yUpper, yLower, x_airfoil, y_airfoil, src, Nc,
                       x, y, x_old, y_old, it, cur, err, errHist, writes, rd,
                       stdout, ret, gmsh>>

\* createEllipticStructuredOGrid(xc, yu, yl) up to the head of the
\* Gauss-Seidel loop
Call ==
    /\ pc = "idle"
    /\ \E n \in 1..MaxN :
       \E xc \in Abscissas(n), yu \in [1..n -> YUpperVals], yl \in [1..n -> YLowerVals] :
        LET xa == AirfoilLoop(xc, xc)
            ya == AirfoilLoop(yu, yl)
            nc == Len(xa)
        IN  /\ xCoords' = xc /\ yUpper' = yu /\ yLower' = yl
            /\ x_airfoil' = xa /\ y_airfoil' = ya
            /\ src' = AirfoilLoop([k \in 1..n |-> <<"upper", k - 1>>],
                                  [k \in 1..n |-> <<"lower", k - 1>>])
            /\ Nc' = nc
            /\ x' = InitialGrid(xa, [k \in 1..nc |-> FarfieldX(k - 1, nc)])
            /\ y' = InitialGrid(ya, [k \in 1..nc |-> FarfieldY(k - 1, nc)])
            /\ writes' = [i \in range(0, nc) |-> [j \in range(0, Nr) |-> 0]]
            /\ it' = 0
            /\ pc' = "loop"
            /\ UNCHANGED <<args, nPoints, x_old, y_old, cur, err, errHist, rd,
                           stdout, ret, gmsh>>

\* the loop starts its next pass: x_old = x.copy(); y_old = y.copy()
BeginSweep ==
    /\ pc = "loop"
    /\ LoopContinues(it)
    /\ x_old' = x /\ y_old' = y
    /\ cur' = 1
    /\ pc' = IF Len(SweepOrder(Nc)) = 0 THEN "check" ELSE "sweep"
    /\ UNCHANGED <<args, nPoints, xCoords, yUpper, yLower, x_airfoil, y_airfoil,
                   src, Nc, x, y, it, err, errHist, writes, rd, stdout, ret, gmsh>>

\* range(max_iter) is exhausted: the loop ends without break
LoopExhausted ==
    /\ pc = "loop"
    /\ ~LoopContinues(it)
    /\ pc' = "export"
    /\ UNCHANGED <<args, nPoints, xCoords, yUpper, yLower, x_airfoil, y_airfoil,
                   src, Nc, x, y, x_old, y_old, it, cur, err, errHist, writes,
                   rd, stdout, ret, gmsh>>

\* the body of the two inner loops for the node SweepOrder(Nc)[cur]
UpdateNode ==
    /\ pc = "sweep"
    /\ LET i == SweepOrder(Nc)[cur][1]
           j == SweepOrder(Nc)[cur][2]
           jj == PyIdx(j, Nr)
           ip == ip_solver(i, Nc)
           im == im_solver(i, Nc)
       IN  /\ x' = [x EXCEPT ![i][jj] = Relax(x, y, x, i, j, Nc)]
           /\ y' = [y EXCEPT ![i][jj] = Relax(x, y, y, i, j, Nc)]
           /\ writes' = [writes EXCEPT ![i][jj] = @ + 1]
           /\ rd' = [i |-> i, j |-> j, ip |-> ip, im |-> im,
                     jp |-> j + 1, jm |-> j - 1,
                     xv |-> <<At(x, ip, j), At(x, im, j), At(x, i, j + 1), At(x, i, j - 1)>>,
                     yv |-> <<At(y, ip, j), At(y, im, j), At(y, i, j + 1), At(y, i, j - 1)>>]
    /\ cur' = cur + 1
    /\ pc' = IF cur = Len(SweepOrder(Nc)) THEN "check" ELSE "sweep"
    /\ UNCHANGED <<args, nPoints, xCoords, yUpper, yLower, x_airfoil, y_airfoil,
                   src, Nc, x_old, y_old, it, err, errHist, stdout, ret, gmsh>>

\* the convergence check at the end of a pass
ConvergenceCheck ==
    /\ pc = "check"
    /\ LET e == Residual(x, x_old, y, y_old, Nc)
       IN  /\ err' = e
           /\ errHist' = Append(errHist, e)
           /\ IF Converged(e)
              THEN /\ stdout' = Append(stdout, <<"Gauss-Seidel iteration has converged at iteration", it>>)
                   /\ it' = it
                   /\ pc' = "export"
              ELSE /\ stdout' = stdout
                   /\ it' = it + 1
                   /\ pc' = "loop"
    /\ UNCHANGED <<args, nPoints, xCoords, yUpper, yLower, x_airfoil, y_airfoil,
                   src, Nc, x, y, x_old, y_old, cur, writes, rd, ret, gmsh>>

\* exportToGmsh(x, y), and the function returns
Export ==
    /\ pc = "export"
    /\ gmsh' = Append(gmsh, ExportToGmsh(x, y))
    /\ ret' = None
    /\ pc' = "done"
    /\ UNCHANGED <<args, nPoints, xCoords, yUpper, yLower, x_airfoil, y_airfoil,
                   src, Nc, x, y, x_old, y_old, it, cur, err, errHist, writes,
                   rd, stdout>>

Next ==
    \/ Main
    \/ Call
    \/ BeginSweep
    \/ LoopExhausted
    \/ UpdateNode
    \/ ConvergenceCheck
    \/ Export

Spec == Init /\ [][Next]_vars

\* The call is synchronous and single-threaded: a started call runs on until
\* it returns.
FairSpec == Spec /\ WF_vars(Next)

----------------------------------------------------------------------------
(* Properties *)

InSolver == pc \in {"loop", "sweep", "check", "export", "done"}

Terminal == pc \in {"export", "done"}

SweepsDone == Len(errHist)

FreeNodes == range(0, Nc) \X (1 .. (Nr - 2))

\* the residual of the specification: the maximum over the free nodes only
FreeResidual ==
    IF \E p \in FreeNodes : \/ IsNaN(x[p[1]][p[2]]) \/ IsNaN(x_old[p[1]][p[2]])
                            \/ IsNaN(y[p[1]][p[2]]) \/ IsNaN(y_old[p[1]][p[2]])
    THEN NaN
    ELSE SetMax({Abs(x[p[1]][p[2]] - x_old[p[1]][p[2]])
                 + Abs(y[p[1]][p[2]] - y_old[p[1]][p[2]]) : p \in FreeNodes})

BelowTolerance(e) == ~IsNaN(e) /\ e < tolerance

\* C1: boundary fixation.  From the moment the grid is set up, through every
\* sweep and after the last one, node (i,0) is the inner boundary point i and
\* node (i,Nr-1) is the far-field point i, and no node outside j in
\* [1,Nr-2] has ever been stored into.
C1_BoundaryFixation ==
    InSolver =>
        \A i \in range(0, Nc) :
            /\ x[i][0] = x_airfoil[i + 1]
            /\ y[i][0] = y_airfoil[i + 1]
            /\ x[i][Nr - 1] = FarfieldX(i, Nc)
            /\ y[i][Nr - 1] = FarfieldY(i, Nc)
            /\ \A j \in range(0, Nr) : writes[i][j] > 0 => j \in 1 .. (Nr - 2)

\* a grid with Nc >= 3 after max_iter complete sweeps that moved a free node
C1_Witness ==
    /\ pc = "done"
    /\ Nc >= 3
    /\ SweepsDone = max_iter
    /\ \E i \in range(0, Nc) : writes[i][1] = max_iter /\ x[i][1] # x_old[i][1]

Phase ==
    CASE pc = "loop" /\ SweepsDone = 0 -> "Initialized"
      [] pc = "loop" /\ SweepsDone > 0 -> "Iterating"
      [] pc \in {"sweep", "check"} -> "Iterating"
      [] Terminal /\ BelowTolerance(FreeResidual) -> "Converged"
      [] Terminal /\ ~BelowTolerance(FreeResidual) -> "MaxIterExceeded"
      [] OTHER -> "NotStarted"

PhaseSteps == {<<"NotStarted", "Initialized">>, <<"Initialized", "Iterating">>,
               <<"Iterating", "Converged">>, <<"Iterating", "MaxIterExceeded">>}

\* an upper bound on the steps the call still takes
StepsLeft ==
    LET K == Len(SweepOrder(Nc)) IN
    CASE pc = "loop" -> (max_iter - it) * (K + 2) + 2
      [] pc = "sweep" -> (max_iter - it - 1) * (K + 2) + 2 + (K - cur + 1) + 1
      [] pc = "check" -> (max_iter - it - 1) * (K + 2) + 2 + 1
      [] pc = "export" -> 1
      [] OTHER -> 0

C3_State ==
    /\ SweepsDone <= max_iter
    /\ pc \in {"sweep", "check"} => SweepsDone < max_iter
    /\ (SweepsDone > 0 /\ pc \in {"loop", "export", "done"}) =>
           /\ err = FreeResidual
           /\ errHist[SweepsDone] = FreeResidual
    /\ pc = "loop" => \A k \in 1..SweepsDone : ~BelowTolerance(errHist[k])
    /\ Terminal =>
           /\ SweepsDone >= 1
           /\ \A k \in 1..(SweepsDone - 1) : ~BelowTolerance(errHist[k])
           /\ \/ BelowTolerance(errHist[SweepsDone])
              \/ SweepsDone = max_iter
    /\ InSolver => StepsLeft >= 0
    /\ pc = "sweep" =>
           /\ cur \in 1..Len(SweepOrder(Nc))
           /\ SweepOrder(Nc)[cur] \in range(0, Nc) \X (1 .. (Nr - 2))

\* C3: the solve moves Initialized -> Iterating -> {Converged |
\* MaxIterExceeded} and nowhere else; the residual of a sweep is the maximum
\* over the free nodes of |x - x_before| + |y - y_before|; the solve stops at
\* the first sweep whose residual is below the tolerance and otherwise after
\* exactly max_iter sweeps; it never runs more than max_iter sweeps and
\* leaves the grid alone once it is terminal.  It always terminates: every
\* step of the call lowers StepsLeft, which is never negative, and inside a
\* sweep the next node to update exists.
C3_Termination ==
    /\ []C3_State
    /\ [][Phase' # Phase => <<Phase, Phase'>> \in PhaseSteps]_vars
    /\ [][Terminal => (Terminal' /\ x' = x /\ y' = y)]_vars
    /\ [][InSolver => StepsLeft' < StepsLeft]_vars

\* a solve that stopped before the iteration cap, on the first sweep whose
\* residual was below the tolerance, and has handed its grid on
C3_WitnessConverged ==
    /\ pc = "done"
    /\ Phase = "Converged"
    /\ SweepsDone < max_iter
    /\ BelowTolerance(errHist[SweepsDone])
    /\ Len(gmsh) = 1

GridTag(m, i, j) == m.node_tags[j * Nc + i + 1]

\* the edges e form one closed cycle through exactly the nodes of layer j
ClosedRing(m, e, j) ==
    /\ Len(e) = Nc
    /\ \A k \in 1..Nc : e[k][2] = e[(k % Nc) + 1][1]
    /\ {e[k][1] : k \in 1..Nc} = {GridTag(m, i, j) : i \in range(0, Nc)}
    /\ \E k \in 1..Nc : e[k] = <<GridTag(m, Nc - 1, j), GridTag(m, 0, j)>>

\* C7: periodic closure.  Every node update reads the columns
\* ip = (i+1) mod Nc and im = (i-1) mod Nc, both in [0,Nc), with im = Nc-1
\* at i = 0 and ip = 0 at i = Nc-1.  The exported mesh has, for every layer
\* of cells, a quad joining column Nc-1 to column 0, and the airfoil and the
\* far-field edge groups are closed rings of Nc edges that hold the edge
\* (Nc-1,j)-(0,j).
C7_PeriodicClosure ==
    /\ rd.i >= 0 =>
           /\ rd.ip \in range(0, Nc) /\ rd.im \in range(0, Nc)
           /\ rd.i = 0 => rd.im = Nc - 1
           /\ rd.i = Nc - 1 => rd.ip = 0
           /\ rd.i < Nc - 1 => rd.ip = rd.i + 1
           /\ rd.i > 0 => rd.im = rd.i - 1
    /\ pc = "done" =>
           LET m == gmsh[1] IN
           /\ \A j \in 0 .. (Nr - 2) :
                  \E k \in 1..Len(m.quad_nodes) :
                      m.quad_nodes[k] = <<GridTag(m, Nc - 1, j), GridTag(m, 0, j),
                                          GridTag(m, 0, j + 1), GridTag(m, Nc - 1, j + 1)>>
           /\ ClosedRing(m, m.airfoil_nodes, 0)
           /\ ClosedRing(m, m.farfield_nodes, Nr - 1)

\* an exported grid with Nc >= 3 whose sweeps updated the nodes on both sides
\* of the seam
C7_Witness ==
    /\ pc = "done"
    /\ Nc >= 3
    /\ rd.i = Nc - 1 /\ rd.ip = 0
    /\ Len(gmsh[1].airfoil_nodes) = Nc

QuadOf(m, i, j) ==
    <<GridTag(m, i, j), GridTag(m, (i + 1) % Nc, j),
      GridTag(m, (i + 1) % Nc, j + 1), GridTag(m, i, j + 1)>>

NodeListIsGrid(m) ==
    /\ Len(m.node_tags) = Nc * Nr
    /\ Len(m.node_coords) = Nc * Nr
    /\ \A i \in range(0, Nc), j \in range(0, Nr) :
           /\ m.node_tags[j * Nc + i + 1] = j * Nc + i + 1
           /\ m.node_coords[j * Nc + i + 1] = <<x[i][j], y[i][j]>>

\* exactly one quad, with the nodes in the order (i,j), (ip,j), (ip,j+1),
\* (i,j+1), for each i in [0,Nc) and each j in J, and no other quad
QuadsExactly(m, J) ==
    /\ Len(m.quad_nodes) = Nc * Cardinality(J)
    /\ \A i \in range(0, Nc), j \in J :
           Cardinality({k \in 1..Len(m.quad_nodes) : m.quad_nodes[k] = QuadOf(m, i, j)}) = 1

\* C8 as stated: the quads are those of the pairs (i,j) with j in [0,Nr-2).
C8_QuadsAsStated ==
    pc = "done" => (NodeListIsGrid(gmsh[1]) /\ QuadsExactly(gmsh[1], range(0, Nr - 2)))

\* C8, amended: exportToGmsh emits exactly one quad for each i in [0,Nc) and
\* each j in [0,Nr-1), that is one per cell between two neighbouring layers,
\* the outermost layer of cells included, and no others; the quad of (i,j)
\* lists (i,j), (ip,j), (ip,j+1), (i,j+1), each by the id j*Nc + i + 1 its
\* grid position has in the node list.
C8_Quads ==
    pc = "done" => (NodeListIsGrid(gmsh[1]) /\ QuadsExactly(gmsh[1], range(0, Nr - 1)))

\* an exported grid with Nc >= 3 whose last quad lies between the layers
\* Nr-2 and Nr-1
C8_Witness ==
    /\ pc = "done"
    /\ Nc >= 3
    /\ gmsh[1].quad_nodes[Nc * (Nr - 1)] = QuadOf(gmsh[1], Nc - 1, Nr - 2)

\* the place of node (i,j) in the order outer loop i, inner loop j
Rank(i, j) == i * (Nr - 2) + j

FreeRows == 1 .. (Nr - 2)

\* C9: Gauss-Seidel sweep order.  In sweep number `it` every free node is
\* stored into exactly once, in the order outer loop i = 0..Nc-1, inner loop
\* j = 1..Nr-2: the nodes before the position of the sweep have it+1 stores,
\* the others it, and the node updated last is the one just before the
\* position.  Each update reads the values stored at that moment, so (for
\* Nc >= 2, where the columns im and ip are not column i itself) the rows
\* read in column im hold this sweep's values for i > 0 and the previous
\* sweep's for i = 0, those in column ip the previous sweep's for i < Nc-1
\* and this sweep's for i = Nc-1, node (i,j-1) this sweep's and node (i,j+1)
\* the previous sweep's; boundary rows are never stored into.
C9_SweepOrder ==
    /\ pc \in {"sweep", "check"} =>
           /\ \A i \in range(0, Nc), j \in FreeRows :
                  writes[i][j] = IF Rank(i, j) < cur THEN it + 1 ELSE it
           /\ cur > 1 => Rank(rd.i, rd.j) = cur - 1
           /\ pc = "check" => cur = Nc * (Nr - 2) + 1
    /\ pc \in {"loop", "export", "done"} =>
           \A i \in range(0, Nc), j \in FreeRows : writes[i][j] = SweepsDone
    /\ (pc \in {"sweep", "check"} /\ cur > 1 /\ Nc >= 2) =>
           LET i == rd.i
               j == rd.j
               age(c, r) == IF r \in FreeRows THEN writes[c][r] ELSE 0
               now(r) == IF r \in FreeRows THEN it + 1 ELSE 0
               before(r) == IF r \in FreeRows THEN it ELSE 0
           IN  /\ rd.xv = <<x[rd.ip][j], x[rd.im][j], x[i][j + 1], x[i][j - 1]>>
               /\ rd.yv = <<y[rd.ip][j], y[rd.im][j], y[i][j + 1], y[i][j - 1]>>
               /\ \A r \in {j - 1, j, j + 1} :
                      /\ i > 0 => age(rd.im, r) = now(r)
                      /\ i = 0 => age(rd.im, r) = before(r)
                      /\ i < Nc - 1 => age(rd.ip, r) = before(r)
                      /\ i = Nc - 1 => age(rd.ip, r) = now(r)
               /\ age(i, j - 1) = now(j - 1)
               /\ age(i, j + 1) = before(j + 1)

\* the second sweep is updating the last column of a grid with Nc >= 3: an
\* update that read column 0 of this sweep and column Nc-2 of this sweep
C9_Witness ==
    /\ pc = "sweep"
    /\ Nc >= 3
    /\ it = 1
    /\ rd.i = Nc - 1 /\ rd.j = 1
    /\ writes[0][1] = 2 /\ writes[Nc - 1][2] = 1

\* C2: a call that ran max_iter sweeps, none with a residual below the
\* tolerance, reports it: it returns an outcome or prints a message, so that
\* its end differs from that of a converged call by more than silence.
C2_NonConvergenceReported ==
    (pc = "done" /\ SweepsDone = max_iter
       /\ \A k \in 1..SweepsDone :
              ~IsNaN(errHist[k]) /\ ~BelowTolerance(errHist[k])) =>
        (ret # None \/ stdout # <<>>)

HoldsNaN(g) == \E i \in DOMAIN g : \E j \in DOMAIN g[i] : IsNaN(g[i][j])

\* C4: the solver never stores a NaN into the grid and never hands a grid
\* holding one to the exporter: a node update that finds alpha + gamma = 0
\* ends the call instead.
C4_DegenerateGuard ==
    /\ ~HoldsNaN(x) /\ ~HoldsNaN(y)
    /\ \A k \in 1..Len(gmsh) :
           \A n \in 1..Len(gmsh[k].node_coords) :
               ~IsNaN(gmsh[k].node_coords[n][1]) /\ ~IsNaN(gmsh[k].node_coords[n][2])

\* the arguments of the call break a constraint of the specification: fewer
\* than two samples, fewer than three circumferential points, or surfaces
\* that do not share their first and their last sample
InvalidInput ==
    LET N == Len(xCoords) IN
    \/ N < 2
    \/ 2 * N - 2 < 3
    \/ yUpper[1] # yLower[1]
    \/ yUpper[N] # yLower[N]

\* C5: a call whose arguments are invalid ends before the first sweep, with
\* no grid built and nothing exported.
C5_FailFast ==
    (pc \in {"loop", "sweep", "check", "export", "done", "InvalidConfig", "InvalidGeometry"}
       /\ InvalidInput) =>
        /\ pc \in {"InvalidConfig", "InvalidGeometry"}
        /\ x = Empty /\ y = Empty
        /\ gmsh = <<>>

\* C10: run with --meshingMethod ELLIPTIC and --Nr n, n >= 3, the entry
\* point's call of createEllipticStructuredOGrid is accepted, and a grid that
\* exists has n radial layers.
C10_NrIsAnInput ==
    (Len(args) = 1 /\ args[1].meshingMethod = "ELLIPTIC" /\ args[1].Nr >= 3) =>
        /\ pc # "TypeError"
        /\ \A i \in DOMAIN x : DOMAIN x[i] = range(0, args[1].Nr)

\* C11: run with --meshingMethod ELLIPTIC and an even --Nc n, n >= 4, NACA4
\* samples each surface at n/2 + 1 points, and the inner loop, the far-field
\* circle and the first dimension of the grid that the entry point's call
\* builds all have n points.
C11_NcEndToEnd ==
    (Len(args) = 1 /\ args[1].meshingMethod = "ELLIPTIC"
       /\ args[1].Nc >= 4 /\ args[1].Nc % 2 = 0) =>
        /\ 2 * nPoints = args[1].Nc + 2
        /\ Len(x_airfoil) = args[1].Nc /\ Len(y_airfoil) = args[1].Nc
        /\ Nc = args[1].Nc
        /\ DOMAIN x = range(0, args[1].Nc) /\ DOMAIN y = range(0, args[1].Nc)
        /\ \A i \in DOMAIN x :
               /\ x[i][PyIdx(-1, Nr)] = FarfieldX(i, args[1].Nc)
               /\ y[i][PyIdx(-1, Nr)] = FarfieldY(i, args[1].Nc)

====
